---- MODULE Spec2Model ----
(***************************************************************************)
(* A model of flask_social/core.py: the Social registry and its config     *)
(* normalization (init_app), the ConnectionFactory, and the Login and      *)
(* Connect handlers.                                                       *)
(*                                                                         *)
(* Python strings that the code takes apart (configuration keys, provider  *)
(* ids, attribute names) are sequences of one-character strings; strings   *)
(* the code only passes around are TLA+ strings.  A dict is a function on  *)
(* the set of its keys.  Python's None is the string "None".               *)
(***************************************************************************)
EXTENDS Integers, Sequences, FiniteSets, TLC

VARIABLES
    config,        \* app.config, the application's configuration store
    defaults,      \* flask_social.providers.<id>.default_config, by provider id
    providers,     \* Social.providers
    attrs,         \* the names in the Social object's instance dictionary
    app_social,    \* whether app.social is set
    phase,         \* "new": no Social object yet, "live", or "dead" (constructor raised)
    regs,          \* how many direct register_provider calls were made
    datastore,     \* the connection datastore: a set of Connection rows
    current_user,  \* current_user.get_id()
    factory,       \* the ConnectionFactory under test
    handler,       \* the OAuthHandler under test
    call           \* the most recent operation: its arguments, effects and outcome

vars == <<config, defaults, providers, attrs, app_social, phase, regs,
          datastore, current_user, factory, handler, call>>

None == "None"

----------------------------------------------------------------------------
(* Bounds of the model *)

MaxProviderKeys == 2    \* provider-prefixed keys the application config holds
MaxRegs == 1            \* direct register_provider calls
MaxConnections == 3     \* rows the connection datastore holds

----------------------------------------------------------------------------
(* Python strings and dicts *)

UpperChars == <<"A","B","C","D","E","F","G","H","I","J","K","L","M","N","O","P","Q","R","S","T","U","V","W","X","Y","Z">>
LowerChars == <<"a","b","c","d","e","f","g","h","i","j","k","l","m","n","o","p","q","r","s","t","u","v","w","x","y","z">>

LowerChar(c) ==
    IF \E i \in 1..Len(UpperChars) : UpperChars[i] = c
    THEN LowerChars[CHOOSE i \in 1..Len(UpperChars) : UpperChars[i] = c]
    ELSE c

\* str.lower()
Lower(s) == [i \in 1..Len(s) |-> LowerChar(s[i])]

\* str.startswith(p)
StartsWith(s, p) == Len(s) >= Len(p) /\ SubSeq(s, 1, Len(p)) = p

\* str.replace(old, new): every non-overlapping occurrence, left to right
RECURSIVE Replace(_, _, _)
Replace(s, old, new) ==
    IF s = <<>> THEN <<>>
    ELSE IF StartsWith(s, old)
         THEN new \o Replace(SubSeq(s, Len(old) + 1, Len(s)), old, new)
         ELSE <<Head(s)>> \o Replace(Tail(s), old, new)

EmptyMap == [k \in {} |-> ""]

\* dict.update(a) on a flat dict
MapUpdate(d, a) ==
    [k \in DOMAIN d \cup DOMAIN a |-> IF k \in DOMAIN a THEN a[k] ELSE d[k]]

\* A configuration value.  A provider config is a dict whose 'oauth' entry, when
\* present, is itself a dict: top holds the entries other than 'oauth'.
Scalar(v) == [kind |-> "scalar", val |-> v, top |-> EmptyMap,
              has_oauth |-> FALSE, oauth |-> EmptyMap]
Dict(top, has, oa) == [kind |-> "dict", val |-> "", top |-> top,
                       has_oauth |-> has, oauth |-> oa]

\* dict.update(a) on a provider config: the 'oauth' entry is one more key, so a's
\* whole 'oauth' value replaces d's
DictUpdate(d, a) ==
    [d EXCEPT !.top = MapUpdate(d.top, a.top),
              !.has_oauth = d.has_oauth \/ a.has_oauth,
              !.oauth = IF a.has_oauth THEN a.oauth ELSE d.oauth]

\* The orders in which a dict's keys may be iterated
Orders(S) ==
    {s \in [1..Cardinality(S) -> S] : \A i, j \in DOMAIN s : s[i] = s[j] => i = j}

----------------------------------------------------------------------------
(* Configuration keys *)

\* The characters of every string the code takes apart or builds
CharTable ==
    ("SOCIAL_URL_PREFIX" :> <<"S","O","C","I","A","L","_","U","R","L","_","P","R","E","F","I","X">>) @@
    ("SOCIAL_APP_URL" :> <<"S","O","C","I","A","L","_","A","P","P","_","U","R","L">>) @@
    ("SOCIAL_CONNECT_ALLOW_REDIRECT" :> <<"S","O","C","I","A","L","_","C","O","N","N","E","C","T","_","A","L","L","O","W","_","R","E","D","I","R","E","C","T">>) @@
    ("SOCIAL_CONNECT_DENY_REDIRECT" :> <<"S","O","C","I","A","L","_","C","O","N","N","E","C","T","_","D","E","N","Y","_","R","E","D","I","R","E","C","T">>) @@
    ("SOCIAL_FLASH_MESSAGES" :> <<"S","O","C","I","A","L","_","F","L","A","S","H","_","M","E","S","S","A","G","E","S">>) @@
    ("SOCIAL_POST_OAUTH_CONNECT_SESSION_KEY" :> <<"S","O","C","I","A","L","_","P","O","S","T","_","O","A","U","T","H","_","C","O","N","N","E","C","T","_","S","E","S","S","I","O","N","_","K","E","Y">>) @@
    ("SOCIAL_POST_OAUTH_LOGIN_SESSION_KEY" :> <<"S","O","C","I","A","L","_","P","O","S","T","_","O","A","U","T","H","_","L","O","G","I","N","_","S","E","S","S","I","O","N","_","K","E","Y">>) @@
    ("SOCIAL_TWITTER" :> <<"S","O","C","I","A","L","_","T","W","I","T","T","E","R">>) @@
    ("SOCIAL_MySpace" :> <<"S","O","C","I","A","L","_","M","y","S","p","a","c","e">>) @@
    ("SOCIAL_SOCIAL_TWITTER" :> <<"S","O","C","I","A","L","_","S","O","C","I","A","L","_","T","W","I","T","T","E","R">>) @@
    ("SECRET_KEY" :> <<"S","E","C","R","E","T","_","K","E","Y">>) @@
    ("SOCIAL_" :> <<"S","O","C","I","A","L","_">>) @@
    ("CONNECT_DENY_REDIRECT" :> <<"C","O","N","N","E","C","T","_","D","E","N","Y","_","R","E","D","I","R","E","C","T">>) @@
    ("twitter" :> <<"t","w","i","t","t","e","r">>) @@
    ("facebook" :> <<"f","a","c","e","b","o","o","k">>) @@
    ("myspace" :> <<"m","y","s","p","a","c","e">>) @@
    ("social_twitter" :> <<"s","o","c","i","a","l","_","t","w","i","t","t","e","r">>)

Chars(str) == CharTable[str]
Str(cs) == CHOOSE n \in DOMAIN CharTable : CharTable[n] = cs

PREFIX == "SOCIAL_"

\* The module-level default_config, lines 11-19
default_config ==
    ("SOCIAL_URL_PREFIX" :> Scalar(None)) @@
    ("SOCIAL_APP_URL" :> Scalar("http://127.0.0.1:5000")) @@
    ("SOCIAL_CONNECT_ALLOW_REDIRECT" :> Scalar("/profile")) @@
    ("SOCIAL_CONNECT_DENY_REDIRECT" :> Scalar("/profile")) @@
    ("SOCIAL_FLASH_MESSAGES" :> Scalar("True")) @@
    ("SOCIAL_POST_OAUTH_CONNECT_SESSION_KEY" :> Scalar("post_oauth_connect_url")) @@
    ("SOCIAL_POST_OAUTH_LOGIN_SESSION_KEY" :> Scalar("post_oauth_login_url"))

\* utils.get_default_provider_names(): the modules of flask_social.providers
get_default_provider_names == {"twitter", "facebook"}

\* The compiled-in default_config of each built-in provider module
ProviderDefaults ==
    ("twitter" :> Dict(("id" :> "twitter") @@ ("display_name" :> "Twitter"), TRUE,
                       ("request_token_url" :> "default_url") @@
                       ("access_token_url" :> "default_access"))) @@
    ("facebook" :> Dict(("id" :> "facebook") @@ ("display_name" :> "Facebook"), TRUE,
                        ("authorize_url" :> "default_authorize")))

----------------------------------------------------------------------------
(* Social.init_app *)

\* line 207: key.replace('SOCIAL_', '').lower()
DeriveProviderId(key) == Str(Lower(Replace(Chars(key), Chars(PREFIX), <<>>)))

\* line 206: key.startswith('SOCIAL_') and key not in default_config
PassesFilter(key) ==
    StartsWith(Chars(key), Chars(PREFIX)) /\ key \notin DOMAIN default_config

\* Both, tabulated over the keys a config store can hold
ConfigKeys == DOMAIN default_config \cup
              {"SECRET_KEY", "SOCIAL_TWITTER", "SOCIAL_MySpace", "SOCIAL_SOCIAL_TWITTER"}
ProviderIdTable == [key \in {k \in ConfigKeys : PassesFilter(k)} |-> DeriveProviderId(key)]
FilterTable == [key \in ConfigKeys |-> PassesFilter(key)]
ProviderIdOf(key) == ProviderIdTable[key]
IsProviderKey(key) == FilterTable[key]

\* lines 197-198: app.config.setdefault for every global option
SetDefaults(cfg) ==
    [k \in DOMAIN cfg \cup DOMAIN default_config |->
        IF k \in DOMAIN cfg THEN cfg[k] ELSE default_config[k]]

\* A merge that lacks line 222: the application's 'oauth' replaces the default one
MergeDefaultReplace(D, A) == DictUpdate(D, A)

\* lines 217-222: the merged config of a built-in provider, from its default
\* config D and the application's value A (a dict holding 'oauth')
MergeDefault(D, A) ==
    LET d_config == D                                   \* D.copy()
        d_oauth_config == d_config.oauth                \* d_config['oauth'].copy()
        d_config1 == DictUpdate(d_config, A)            \* d_config.update(A)
        d_oauth_config1 == MapUpdate(d_oauth_config, A.oauth)
    IN  [d_config1 EXCEPT !.has_oauth = TRUE, !.oauth = d_oauth_config1]

\* A merge that updates the default config object in place, without the copies
DefaultAfterMergeInPlace(D, A) ==
    [DictUpdate(D, A) EXCEPT !.has_oauth = TRUE, !.oauth = MapUpdate(D.oauth, A.oauth)]

\* lines 217-218: what the merge leaves in the default config object itself; both
\* updates act on copies
DefaultAfterMerge(D, A) == D

\* lines 220-221: the error the merge raises, "" when it raises none
MergeError(A) ==
    IF A.kind # "dict" THEN "ValueError"
    ELSE IF ~A.has_oauth THEN "KeyError"
    ELSE ""

\* lines 205-226: the scan over the provider keys `keys`, in iteration order, from
\* index i.  st = [cfg, dflt, pcs, exc]: the config store, the default configs,
\* the provider_configs list and the error raised so far.
RECURSIVE Scan(_, _, _)
Scan(st, keys, i) ==
    IF i > Len(keys) \/ st.exc # "" THEN st
    ELSE LET key == keys[i]
             provider_id == ProviderIdOf(key)
             A == st.cfg[key]
         IN  IF provider_id \notin get_default_provider_names
             THEN Scan([st EXCEPT !.pcs = Append(@, A)], keys, i + 1)
             ELSE IF MergeError(A) # ""
             THEN [st EXCEPT !.exc = MergeError(A)]
             ELSE LET D == st.dflt[provider_id]
                      d_config == MergeDefault(D, A)
                  IN  Scan([cfg |-> [st.cfg EXCEPT ![key] = d_config],
                            dflt |-> [st.dflt EXCEPT ![provider_id] = DefaultAfterMerge(D, A)],
                            pcs |-> Append(st.pcs, d_config),
                            exc |-> ""],
                           keys, i + 1)

\* A registration that keeps an id's first provider
register_provider_keep_first(provs, name, provider) ==
    [n \in DOMAIN provs \cup {name} |-> IF n \in DOMAIN provs THEN provs[n] ELSE provider]

\* lines 246-247
register_provider(provs, name, provider) ==
    [n \in DOMAIN provs \cup {name} |-> IF n = name THEN provider ELSE provs[n]]

\* A Provider object: what views.configure_provider builds from a provider config
Provider(pid, pc) == [remote_app |-> pid, built_from |-> pc]

\* views.configure_provider reads the provider id from the config's 'id' entry and
\* the client parameters from its 'oauth' entry; without either it raises
CanConfigure(pc) == pc.kind = "dict" /\ "id" \in DOMAIN pc.top /\ pc.has_oauth
configure_provider(pc) == <<pc.top["id"], Provider(pc.top["id"], pc)>>

\* lines 237-240: configure and register, in list order.  The configuration step
\* of the fail-th config raises for a reason of its own (fail = 0: none does).
\* st = [provs, done, exc].
RECURSIVE Configure(_, _, _, _)
Configure(st, pcs, fail, i) ==
    IF i > Len(pcs) \/ st.exc # "" THEN st
    ELSE IF i = fail \/ ~CanConfigure(pcs[i])
         THEN [st EXCEPT !.exc = "ConfigureError"]
         ELSE LET r == configure_provider(pcs[i])
              IN  Configure([provs |-> register_provider(st.provs, r[1], r[2]),
                             done |-> Append(st.done, r),
                             exc |-> ""],
                            pcs, fail, i + 1)

\* An init_app that attaches itself to the application before the providers are
\* configured
AttachedEarly(before, exc) == TRUE

\* line 244: app.social after the call, which raised exc ("" when it returned)
AttachedAfter(before, exc) == before \/ exc = ""

\* line 205: app.config.keys().  The keys the scan skips come first, in a fixed
\* order; the provider keys follow in the order perm, which is any order.
KeyUniverse == <<"SECRET_KEY", "SOCIAL_URL_PREFIX", "SOCIAL_APP_URL",
                 "SOCIAL_CONNECT_ALLOW_REDIRECT", "SOCIAL_CONNECT_DENY_REDIRECT",
                 "SOCIAL_FLASH_MESSAGES", "SOCIAL_POST_OAUTH_CONNECT_SESSION_KEY",
                 "SOCIAL_POST_OAUTH_LOGIN_SESSION_KEY">>
InStore(cfg) == LET Test(k) == k \in DOMAIN cfg IN SelectSeq(KeyUniverse, Test)
KeyOrder(cfg, perm) == InStore(cfg) \o perm

\* lines 188-244, on a Social object whose registry is provs0
InitAppBody(provs0, op) ==
    \E perm \in Orders({k \in DOMAIN config : IsProviderKey(k)}) :
      LET cfg1 == SetDefaults(config)
          order == KeyOrder(cfg1, perm)
          scan == Scan([cfg |-> cfg1, dflt |-> defaults, pcs |-> <<>>, exc |-> ""],
                       SelectSeq(order, IsProviderKey), 1)
      IN  \E fail \in 0..(IF scan.exc = "" THEN Len(scan.pcs) ELSE 0) :
            LET conf == IF scan.exc # ""
                        THEN [provs |-> provs0, done |-> <<>>, exc |-> scan.exc]
                        ELSE Configure([provs |-> provs0, done |-> <<>>, exc |-> ""],
                                       scan.pcs, fail, 1)
                ok == conf.exc = ""
            IN  /\ config' = scan.cfg
                /\ defaults' = scan.dflt
                /\ providers' = conf.provs
                /\ attrs' = {"providers", "datastore"}
                              \cup (IF scan.exc = "" THEN {"oauth"} ELSE {})
                              \cup attrs
                /\ app_social' = AttachedAfter(app_social, conf.exc)
                /\ call' = [op |-> op, exc |-> conf.exc,
                            config_before |-> config,
                            defaults_before |-> defaults,
                            providers_before |-> provs0,
                            app_social_before |-> app_social,
                            order |-> order,
                            provider_configs |-> scan.pcs,
                            registered |-> conf.done]
                /\ phase' = IF op = "__init__" /\ ~ok THEN "dead" ELSE "live"

\* Social.__init__, lines 184-186
Construct ==
    /\ phase = "new"
    /\ InitAppBody(EmptyMap, "__init__")
    /\ UNCHANGED <<regs, datastore, current_user, factory, handler>>

\* Social.init_app called again on the live object, lines 188-244
InitApp ==
    /\ phase = "live"
    /\ InitAppBody(providers, "init_app")
    /\ UNCHANGED <<regs, datastore, current_user, factory, handler>>

\* Provider objects an application registers by hand
HandProviders == {Provider("twitter", Scalar("by hand")), Provider("oauth", Scalar("by hand"))}
RegisterNames == {"twitter", "oauth"}

\* Social.register_provider, lines 246-247
RegisterProvider ==
    /\ phase = "live"
    /\ regs < MaxRegs
    /\ \E name \in RegisterNames, p \in HandProviders :
          /\ providers' = register_provider(providers, name, p)
          /\ call' = [op |-> "register_provider", exc |-> "", name |-> name,
                      provider |-> p, providers_before |-> providers]
    /\ regs' = regs + 1
    /\ UNCHANGED <<config, defaults, attrs, app_social, phase,
                   datastore, current_user, factory, handler>>

\* The attributes of class Social and of object, found before __getattr__ is tried
ClassAttrs == {"__init__", "init_app", "register_provider", "__getattr__", "__class__"}

\* A __getattr__ that indexes the registry: providers[name]
getattr_hook_index(provs, name) ==
    IF name \in DOMAIN provs
    THEN [kind |-> "provider", value |-> provs[name]]
    ELSE [kind |-> "raise", value |-> Provider(None, Scalar("KeyError"))]

\* Social.__getattr__, lines 249-250: providers.get(name, None)
getattr_hook(provs, name) ==
    IF name \in DOMAIN provs
    THEN [kind |-> "provider", value |-> provs[name]]
    ELSE [kind |-> "none", value |-> Provider(None, Scalar(None))]

\* social.<name>: Python tries the instance dictionary and the class first and
\* calls __getattr__ only when both miss
Lookup(at, provs, name) ==
    IF name \in at \cup ClassAttrs
    THEN [kind |-> "attribute", value |-> Provider(name, Scalar(None))]
    ELSE getattr_hook(provs, name)

LookupNames == {"twitter", "myspace", "github", "oauth", "datastore", "init_app"}

GetAttr ==
    /\ phase = "live"
    /\ \E name \in LookupNames :
          call' = [op |-> "getattr", exc |-> "", name |-> name,
                   result |-> Lookup(attrs, providers, name)]
    /\ UNCHANGED <<config, defaults, providers, attrs, app_social, phase, regs,
                   datastore, current_user, factory, handler>>

----------------------------------------------------------------------------
(* The application configs the model starts from *)

V_scenario == Dict(("consumer_key" :> "X"), TRUE, ("request_token_url" :> "custom"))
V_full == Dict(("id" :> "myspace") @@ ("consumer_key" :> "Y"), TRUE,
               ("access_token_url" :> "my_access") @@ ("scope" :> "email"))
V_no_oauth == Dict(("id" :> "myspace"), FALSE, EmptyMap)
V_scalar == Scalar("oops")
V_empty_oauth == Dict(("id" :> "twitter"), TRUE, EmptyMap)
AppValues == {V_scenario, V_full, V_empty_oauth, V_no_oauth, V_scalar}

AppProviderKeys == {"SOCIAL_TWITTER", "SOCIAL_MySpace", "SOCIAL_SOCIAL_TWITTER"}

AppConfigs ==
    {("SECRET_KEY" :> Scalar("s3cr3t")) @@
     ("SOCIAL_APP_URL" :> Scalar("https://example.org")) @@ f :
        f \in UNION {[ks -> AppValues] :
                        ks \in {x \in SUBSET AppProviderKeys :
                                   Cardinality(x) <= MaxProviderKeys}}}

NoCall == [op |-> "none", exc |-> ""]

SocialIdle ==
    /\ config = ("SECRET_KEY" :> Scalar("s3cr3t"))
    /\ defaults = ProviderDefaults
    /\ providers = EmptyMap
    /\ attrs = {}
    /\ app_social = FALSE
    /\ phase = "new"
    /\ regs = 0

ConnIdle ==
    /\ datastore = {}
    /\ current_user = None
    /\ factory = [provider_id |-> "twitter", has_create_api |-> TRUE]

HandlerIdle ==
    handler = [provider_id |-> "twitter", overrides_hook |-> TRUE, callback |-> "view",
               login_view |-> "/login"]

InitSocial ==
    /\ config \in AppConfigs
    /\ defaults = ProviderDefaults
    /\ providers = EmptyMap
    /\ attrs = {}
    /\ app_social = FALSE
    /\ phase = "new"
    /\ regs = 0
    /\ ConnIdle
    /\ HandlerIdle
    /\ call = NoCall

NextSocial == Construct \/ InitApp \/ RegisterProvider \/ GetAttr

SpecSocial == InitSocial /\ [][NextSocial]_vars

----------------------------------------------------------------------------
(* ConnectionFactory *)

NotFound == "ConnectionNotFoundError"

\* The persisted fields as_dict copies, lines 97-99
ConnectionFields == {"user_id", "provider_id", "provider_user_id", "access_token",
                     "secret", "display_name", "profile_url", "image_url"}

\* A Connection row; id is the datastore's own key and orders a user's connections
Row(id, user, provider, puid) ==
    [id |-> id, user_id |-> user, provider_id |-> provider, provider_user_id |-> puid,
     access_token |-> <<"token", puid>>, secret |-> <<"secret", puid>>,
     display_name |-> <<"name", puid>>, profile_url |-> <<"profile", puid>>,
     image_url |-> <<"image", puid>>]

ConnRows == {Row(1, "u1", "twitter", "t100"), Row(2, "u1", "twitter", "t200"),
             Row(3, "u2", "twitter", "t300"), Row(4, "u1", "facebook", "f100")}

UserIds == {None, "u1", "u2"}
ProviderUserIds == {None, "t100", "t200", "t300"}

\* datastore.get_primary_connection(user_id, provider_id): the rows it may return
\* (none: it raises ConnectionNotFoundError)
PrimaryRows(ds, user_id, provider_id) ==
    {r \in ds : /\ r.user_id = user_id
                /\ r.provider_id = provider_id
                /\ \A q \in ds : (q.user_id = user_id /\ q.provider_id = provider_id)
                                    => r.id <= q.id}

\* datastore.get_connection(user_id, provider_id, provider_user_id)
SpecificRows(ds, user_id, provider_id, provider_user_id) ==
    {r \in ds : /\ r.user_id = user_id
                /\ r.provider_id = provider_id
                /\ r.provider_user_id = provider_user_id}

Query(fn, user_id, provider_id, provider_user_id) ==
    [fn |-> fn, user_id |-> user_id, provider_id |-> provider_id,
     provider_user_id |-> provider_user_id]

\* One datastore call of get_connection.  st = [bound, connection, exc, lookups]:
\* whether the local `connection` is bound, its value, the error raised so far
\* and the datastore calls made.
Resolve(st, cond, query, rows) ==
    IF st.exc # "" \/ ~cond THEN st
    ELSE IF rows = {}
         THEN [st EXCEPT !.exc = NotFound, !.lookups = Append(@, query)]
         ELSE [st EXCEPT !.bound = TRUE, !.connection = CHOOSE r \in rows : TRUE,
                         !.lookups = Append(@, query)]

\* lines 95-101
as_dict(model) == [key \in ConnectionFields |-> model[key]]

\* _create_api of a provider's factory (the base class raises, lines 77-78)
create_api(f, connection) ==
    [client_of |-> f.provider_id, token |-> connection.access_token]

Raise(exc, lookups) == [kind |-> "raise", exc |-> exc, lookups |-> lookups,
                        api |-> <<>>, fields |-> <<>>]

\* A get_connection that looks up the current user's primary connection whenever
\* provider_user_id is absent
get_connection_of_current_user(ds, cu, f, user_id, provider_user_id) ==
    LET pid == f.provider_id
        s0 == [bound |-> FALSE, connection |-> Row(0, None, None, None),
               exc |-> "", lookups |-> <<>>]
        s1 == Resolve(s0, provider_user_id = None,
                      Query("get_primary_connection", cu, pid, None),
                      PrimaryRows(ds, cu, pid))
        s3 == Resolve(s1, user_id # None /\ provider_user_id # None,
                      Query("get_connection", user_id, pid, provider_user_id),
                      SpecificRows(ds, user_id, pid, provider_user_id))
    IN  IF s3.exc # "" THEN Raise(s3.exc, s3.lookups)
        ELSE IF ~s3.bound THEN Raise("UnboundLocalError", s3.lookups)
        ELSE IF ~f.has_create_api THEN Raise("NotImplementedError", s3.lookups)
        ELSE [kind |-> "mapping", exc |-> "", lookups |-> s3.lookups,
              api |-> create_api(f, s3.connection), fields |-> as_dict(s3.connection)]

\* ConnectionFactory.get_connection, lines 80-104, of factory f, with the datastore
\* ds and the current user cu
get_connection(ds, cu, f, user_id, provider_user_id) ==
    LET pid == f.provider_id
        s0 == [bound |-> FALSE, connection |-> Row(0, None, None, None),
               exc |-> "", lookups |-> <<>>]
        \* lines 87-88, through _get_current_user_primary_connection
        s1 == Resolve(s0, user_id = None /\ provider_user_id = None,
                      Query("get_primary_connection", cu, pid, None),
                      PrimaryRows(ds, cu, pid))
        \* lines 89-90
        s2 == Resolve(s1, user_id # None /\ provider_user_id = None,
                      Query("get_primary_connection", user_id, pid, None),
                      PrimaryRows(ds, user_id, pid))
        \* lines 91-93
        s3 == Resolve(s2, user_id # None /\ provider_user_id # None,
                      Query("get_connection", user_id, pid, provider_user_id),
                      SpecificRows(ds, user_id, pid, provider_user_id))
    IN  \* lines 103-104: the argument `connection` is read first
        IF s3.exc # "" THEN Raise(s3.exc, s3.lookups)
        ELSE IF ~s3.bound THEN Raise("UnboundLocalError", s3.lookups)
        ELSE IF ~f.has_create_api THEN Raise("NotImplementedError", s3.lookups)
        ELSE [kind |-> "mapping", exc |-> "", lookups |-> s3.lookups,
              api |-> create_api(f, s3.connection), fields |-> as_dict(s3.connection)]

ReturnNone(lookups) == [kind |-> "none", exc |-> "", lookups |-> lookups,
                        api |-> <<>>, fields |-> <<>>]

\* A __call__ with a bare except
factory_call_catch_all(ds, cu, f, user_id, provider_user_id) ==
    LET r == get_connection(ds, cu, f, user_id, provider_user_id)
    IN  IF r.kind = "raise" THEN ReturnNone(r.lookups) ELSE r

\* ConnectionFactory.__call__, lines 106-110
factory_call(ds, cu, f, user_id, provider_user_id) ==
    LET r == get_connection(ds, cu, f, user_id, provider_user_id)
    IN  IF r.kind = "raise" /\ r.exc = NotFound THEN ReturnNone(r.lookups) ELSE r

ConnUnchanged == UNCHANGED <<config, defaults, providers, attrs, app_social, phase, regs,
                             handler>>

GetConnection ==
    /\ \E user_id \in UserIds, provider_user_id \in ProviderUserIds :
          call' = [op |-> "get_connection", user_id |-> user_id,
                   provider_user_id |-> provider_user_id,
                   result |-> get_connection(datastore, current_user, factory,
                                             user_id, provider_user_id)]
    /\ UNCHANGED <<datastore, current_user, factory>>
    /\ ConnUnchanged

CallFactory ==
    /\ \E user_id \in UserIds, provider_user_id \in ProviderUserIds :
          call' = [op |-> "__call__", user_id |-> user_id,
                   provider_user_id |-> provider_user_id,
                   result |-> factory_call(datastore, current_user, factory,
                                           user_id, provider_user_id)]
    /\ UNCHANGED <<datastore, current_user, factory>>
    /\ ConnUnchanged

\* The datastore's owner saves a connection (after a connect flow)
SaveConnection ==
    /\ Cardinality(datastore) < MaxConnections
    /\ \E r \in ConnRows \ datastore : datastore' = datastore \cup {r}
    /\ call' = [op |-> "save"]
    /\ UNCHANGED <<current_user, factory>>
    /\ ConnUnchanged

\* ... or removes one (the user disconnects a provider)
RemoveConnection ==
    /\ \E r \in datastore : datastore' = datastore \ {r}
    /\ call' = [op |-> "remove"]
    /\ UNCHANGED <<current_user, factory>>
    /\ ConnUnchanged

\* A user logs in or out: current_user.get_id() changes
SwitchUser ==
    /\ \E u \in UserIds \ {current_user} : current_user' = u
    /\ call' = [op |-> "switch_user"]
    /\ UNCHANGED <<datastore, factory>>
    /\ ConnUnchanged

InitConn ==
    /\ SocialIdle
    /\ HandlerIdle
    /\ datastore = {}
    /\ current_user = None
    /\ factory \in [provider_id : {"twitter", "facebook"}, has_create_api : BOOLEAN]
    /\ call = NoCall

NextConn == GetConnection \/ CallFactory \/ SaveConnection \/ RemoveConnection
              \/ SwitchUser

SpecConn == InitConn /\ [][NextConn]_vars

\* C3: __call__ never raises ConnectionNotFoundError; it returns None exactly when
\* get_connection with the same arguments raises it, and otherwise does what
\* get_connection does: returns the identical mapping.
C3_CallSwallowsNotFound ==
    call.op = "__call__" =>
        LET g == get_connection(datastore, current_user, factory,
                                call.user_id, call.provider_user_id)
        IN  /\ ~(call.result.kind = "raise" /\ call.result.exc = NotFound)
            /\ call.result.kind = "none" <=> (g.kind = "raise" /\ g.exc = NotFound)
            /\ ~(g.kind = "raise" /\ g.exc = NotFound) => call.result = g
            /\ g.kind = "mapping" => call.result.kind = "mapping"

\* __call__ returned None for a missing connection, with other connections stored
C3_Witness ==
    /\ call.op = "__call__"
    /\ call.result.kind = "none"
    /\ call.user_id = "u2"
    /\ datastore # {}

\* The datastore call the arguments select, and the rows that answer it
ExpectedQuery(user_id, provider_user_id) ==
    IF provider_user_id = None
    THEN Query("get_primary_connection",
               IF user_id = None THEN current_user ELSE user_id,
               factory.provider_id, None)
    ELSE Query("get_connection", user_id, factory.provider_id, provider_user_id)

Answers(r, q) ==
    /\ r.user_id = q.user_id
    /\ r.provider_id = q.provider_id
    /\ IF q.fn = "get_connection"
       THEN r.provider_user_id = q.provider_user_id
       ELSE \A o \in datastore :
               (o.user_id = q.user_id /\ o.provider_id = q.provider_id) => r.id <= o.id

\* C8: get_connection makes exactly one datastore lookup: the current user's
\* primary connection when both arguments are absent, user U's primary connection
\* when only user_id = U is given, the exact (U, provider, provider_user_id)
\* connection when both are given; on success the result holds 'api' and the
\* eight persisted fields of the record that lookup names.
C8_OneLookupByArguments ==
    (call.op = "get_connection"
        /\ ~(call.user_id = None /\ call.provider_user_id # None)) =>
        LET q == ExpectedQuery(call.user_id, call.provider_user_id)
        IN  /\ call.result.lookups = <<q>>
            /\ call.result.kind = "mapping" =>
                  /\ DOMAIN call.result.fields = ConnectionFields
                  /\ \E r \in datastore :
                        /\ Answers(r, q)
                        /\ \A k \in ConnectionFields : call.result.fields[k] = r[k]
                        /\ call.result.api = create_api(factory, r)

\* get_connection(user_id = u1) returned u1's primary connection while the
\* current user was someone else and u1 had a second connection
C8_Witness ==
    /\ call.op = "get_connection"
    /\ call.user_id = "u1"
    /\ call.provider_user_id = None
    /\ current_user # "u1"
    /\ call.result.kind = "mapping"
    /\ call.result.fields["provider_user_id"] = "t100"
    /\ Row(2, "u1", "twitter", "t200") \in datastore

----------------------------------------------------------------------------
(* LoginHandler and ConnectHandler *)

\* An OAuth response: None when the provider denied access, else a mapping
NoResponse == [is_none |-> TRUE, uid |-> None]
Responses == {NoResponse, [is_none |-> FALSE, uid |-> "123"],
              [is_none |-> FALSE, uid |-> "456"]}

\* What a callback may return
CallbackResults == {"redirect to /", "redirect to /profile"}

\* utils.get_display_name
get_display_name(provider_id) ==
    IF provider_id = "twitter" THEN "Twitter" ELSE "Facebook"

\* utils.config_value(key): app.config['SOCIAL_' + key]
config_value(key) == config[Str(Chars(PREFIX) \o Chars(key))].val

Event(ev, args) == [ev |-> ev, args |-> args]
Returned(tr, v) == [kind |-> "return", exc |-> "", trace |-> tr, value |-> v]
Raised(tr, exc) == [kind |-> "raise", exc |-> exc, trace |-> tr, value |-> ""]
Redirect(target) == <<"redirect", target>>

\* What a provider's handler extracts from a response
provider_user_id_of(response) == <<"provider user", response.uid>>
connection_values_of(h, response) ==
    [provider_id |-> h.provider_id, provider_user_id |-> response.uid,
     access_token |-> <<"token", response.uid>>]

\* The call of an extraction hook (the base classes raise, lines 134 and 165)
\* and then of the callback (None unless one was given, line 117), which
\* returns ret
HookAndCallback(h, tr, hook, extracted, cb_args, ret) ==
    LET tr1 == Append(tr, Event(hook, extracted))
    IN  IF ~h.overrides_hook THEN Raised(tr1, "NotImplementedError")
        ELSE IF h.callback = None THEN Raised(tr1, "TypeError")
        ELSE Returned(Append(tr1, Event("callback", [args |-> cb_args, ret |-> ret])), ret)

\* A login handler whose denial branch does not return
login_handler_falls_through(h, response, ret) ==
    LET display_name == get_display_name(h.provider_id)
        tr0 == <<Event("debug", <<"Received login response from", display_name, response>>)>>
        tr1 == IF response.is_none
               THEN tr0 \o <<Event("do_flash", <<"Access was denied to your account",
                                                 display_name, "error">>),
                              Event("redirect", h.login_view)>>
               ELSE tr0
    IN  HookAndCallback(h, tr1, "get_provider_user_id", response,
                        <<h.provider_id, provider_user_id_of(response), response>>, ret)

\* LoginHandler.__call__, lines 136-150, of handler h
login_handler(h, response, ret) ==
    LET display_name == get_display_name(h.provider_id)
        tr0 == <<Event("debug", <<"Received login response from", display_name, response>>)>>
    IN  IF response.is_none
        THEN Returned(tr0 \o <<Event("do_flash", <<"Access was denied to your account",
                                                   display_name, "error">>),
                                Event("redirect", h.login_view)>>,
                      Redirect(h.login_view))
        ELSE HookAndCallback(h, tr0, "get_provider_user_id", response,
                             <<h.provider_id, provider_user_id_of(response), response>>,
                             ret)

\* A connect handler that passes the current user's id to the callback
connect_handler_current_user(h, response, user_id, ret) ==
    LET display_name == get_display_name(h.provider_id)
        tr0 == <<Event("debug", <<"Received connect response from", display_name, response>>)>>
    IN  IF response.is_none
        THEN Returned(tr0 \o <<Event("do_flash", <<"Access was denied by", display_name,
                                                   "error">>),
                                Event("redirect", config_value("CONNECT_DENY_REDIRECT"))>>,
                      Redirect(config_value("CONNECT_DENY_REDIRECT")))
        ELSE HookAndCallback(h, tr0, "get_connection_values", response,
                             <<connection_values_of(h, response), current_user>>, ret)

\* ConnectHandler.__call__, lines 167-179, of handler h
connect_handler(h, response, user_id, ret) ==
    LET display_name == get_display_name(h.provider_id)
        tr0 == <<Event("debug", <<"Received connect response from", display_name, response>>)>>
    IN  IF response.is_none
        THEN Returned(tr0 \o <<Event("do_flash", <<"Access was denied by", display_name,
                                                   "error">>),
                                Event("redirect", config_value("CONNECT_DENY_REDIRECT"))>>,
                      Redirect(config_value("CONNECT_DENY_REDIRECT")))
        ELSE HookAndCallback(h, tr0, "get_connection_values", response,
                             <<connection_values_of(h, response), user_id>>, ret)

HandlerUnchanged == UNCHANGED <<config, defaults, providers, attrs, app_social, phase, regs,
                                datastore, factory, handler>>

LoginHandlerCall ==
    /\ \E response \in Responses, ret \in CallbackResults :
          call' = [op |-> "login", response |-> response, user_id |-> None,
                   ret |-> ret, result |-> login_handler(handler, response, ret)]
    /\ UNCHANGED current_user
    /\ HandlerUnchanged

ConnectHandlerCall ==
    /\ \E response \in Responses, user_id \in UserIds, ret \in CallbackResults :
          call' = [op |-> "connect", response |-> response, user_id |-> user_id,
                   ret |-> ret,
                   result |-> connect_handler(handler, response, user_id, ret)]
    /\ UNCHANGED current_user
    /\ HandlerUnchanged

\* A user logs in or out between requests
HandlerSwitchUser ==
    /\ \E u \in UserIds \ {current_user} : current_user' = u
    /\ call' = [op |-> "switch_user"]
    /\ HandlerUnchanged

InitHandlers ==
    /\ config \in {SetDefaults(("SECRET_KEY" :> Scalar("s3cr3t"))),
                    SetDefaults(("SOCIAL_CONNECT_DENY_REDIRECT" :> Scalar("/denied")))}
    /\ defaults = ProviderDefaults
    /\ providers = EmptyMap
    /\ attrs = {"providers", "datastore", "oauth"}
    /\ app_social = TRUE
    /\ phase = "live"
    /\ regs = 0
    /\ ConnIdle
    /\ handler \in [provider_id : {"twitter", "facebook"}, overrides_hook : BOOLEAN,
                     callback : {None, "view"}, login_view : {"/login", "/signin"}]
    /\ call = NoCall

NextHandlers == LoginHandlerCall \/ ConnectHandlerCall \/ HandlerSwitchUser

SpecHandlers == InitHandlers /\ [][NextHandlers]_vars

Events(tr, ev) == {i \in 1..Len(tr) : tr[i].ev = ev}

\* C6: a LoginHandler given response = None emits the debug trace, then the
\* 'access denied' notice naming the provider, and returns a redirect to the login
\* view, and calls neither get_provider_user_id nor the callback; the callback is
\* called only for a response that is not None, then exactly once, with
\* (provider_id, provider_user_id, response), and its result is the handler's.
C6_LoginDenied ==
    call.op = "login" =>
        LET tr == call.result.trace
        IN  /\ call.response.is_none =>
                  /\ Len(tr) = 3
                  /\ tr[1].ev = "debug"
                  /\ tr[2].ev = "do_flash"
                  /\ tr[2].args[2] = get_display_name(handler.provider_id)
                  /\ tr[3] = Event("redirect", handler.login_view)
                  /\ call.result.kind = "return"
                  /\ call.result.value = Redirect(handler.login_view)
            /\ Events(tr, "callback") # {} =>
                  /\ ~call.response.is_none
                  /\ Cardinality(Events(tr, "callback")) = 1
                  /\ \A i \in Events(tr, "callback") :
                        /\ tr[i].args.args = <<handler.provider_id,
                                                provider_user_id_of(call.response),
                                                call.response>>
                        /\ call.result = Returned(tr, tr[i].args.ret)

C6_Witness ==
    /\ call.op = "login"
    /\ call.response.is_none
    /\ handler.overrides_hook
    /\ handler.callback # None
    /\ call.result.value = Redirect("/signin")

\* What C7 says of a call of a ConnectHandler with a response that is not None
ConnectDelegates ==
    LET tr == call.result.trace
    IN  /\ Cardinality(Events(tr, "get_connection_values")) = 1
        /\ \A i \in Events(tr, "get_connection_values") : tr[i].args = call.response
        /\ Cardinality(Events(tr, "callback")) = 1
        /\ \A i \in Events(tr, "callback") :
              /\ i > CHOOSE j \in Events(tr, "get_connection_values") : TRUE
              /\ tr[i].args.args = <<connection_values_of(handler, call.response),
                                      call.user_id>>
              /\ call.result = Returned(tr, tr[i].args.ret)
        /\ Events(tr, "do_flash") = {}
        /\ Events(tr, "redirect") = {}

\* C7 as stated: every call of a ConnectHandler with a response that is not None,
\* whatever the user_id, calls get_connection_values once, then the callback once
\* with (its result, user_id), and returns the callback's result; no notice, no
\* redirect.
C7_ConnectDelegates ==
    (call.op = "connect" /\ ~call.response.is_none) => ConnectDelegates

\* C7 amended: the same, of a ConnectHandler that overrides get_connection_values
\* and was given a callback.
C7_ConnectDelegatesWhenConcrete ==
    (call.op = "connect" /\ ~call.response.is_none
        /\ handler.overrides_hook /\ handler.callback # None) => ConnectDelegates

\* The documented scenario: user_id = None, with a user logged in
C7_Witness ==
    /\ call.op = "connect"
    /\ ~call.response.is_none
    /\ call.user_id = None
    /\ current_user # None
    /\ handler.overrides_hook
    /\ handler.callback # None
    /\ call.result.kind = "return"
    /\ call.result.value = call.ret

----------------------------------------------------------------------------
(* Properties of Social *)

IsInit == call.op \in {"__init__", "init_app"}

\* The provider keys of the last init_app run, in the order it met them
ScannedKeys == SelectSeq(call.order, IsProviderKey)

\* The provider id the documentation describes: the prefix stripped, lowercased
PrefixStrippedId(key) ==
    Lower(SubSeq(Chars(key), Len(Chars(PREFIX)) + 1, Len(Chars(key))))
DocumentedCustomKey(key) ==
    /\ StartsWith(Chars(key), Chars(PREFIX))
    /\ key \notin DOMAIN default_config
    /\ PrefixStrippedId(key) \notin {Chars(n) : n \in get_default_provider_names}

\* C1: every key with the provider prefix that is no global default and whose
\* provider id (prefix stripped, lowercased) is not built in has its value handed
\* to the configuration step exactly as supplied, and its entry in the config
\* store is left unchanged.
C1_CustomPassThrough ==
    IsInit =>
        /\ \A key \in DOMAIN call.config_before :
              DocumentedCustomKey(key) => config[key] = call.config_before[key]
        /\ \A i \in 1..Len(call.provider_configs) :
              DocumentedCustomKey(ScannedKeys[i])
                  => call.provider_configs[i] = call.config_before[ScannedKeys[i]]

\* merged.oauth is the default D's 'oauth' updated with the application A's
OauthIsMerge(merged, D, A) ==
    /\ merged.has_oauth
    /\ DOMAIN merged.oauth = DOMAIN D.oauth \cup DOMAIN A.oauth
    /\ \A k \in DOMAIN A.oauth : merged.oauth[k] = A.oauth[k]
    /\ \A k \in DOMAIN D.oauth \ DOMAIN A.oauth : merged.oauth[k] = D.oauth[k]

\* C2: for a built-in provider id the normalized config's 'oauth' mapping has the
\* keys of the default and of the application's 'oauth', with the application's
\* value where it gave one and the default's value elsewhere.
C2_OauthMerged ==
    IsInit =>
        \A i \in 1..Len(call.provider_configs) :
            LET key == ScannedKeys[i]
            IN  ProviderIdOf(key) \in get_default_provider_names =>
                    /\ OauthIsMerge(call.provider_configs[i],
                                    call.defaults_before[ProviderIdOf(key)],
                                    call.config_before[key])
                    /\ config[key] = call.provider_configs[i]

\* The documented scenario: SOCIAL_TWITTER = {'consumer_key': 'X', 'oauth':
\* {'request_token_url': 'custom'}} was normalized
C2_Witness ==
    /\ IsInit
    /\ call.exc = ""
    /\ "SOCIAL_TWITTER" \in DOMAIN call.config_before
    /\ call.config_before["SOCIAL_TWITTER"] = V_scenario
    /\ config["SOCIAL_TWITTER"].oauth =
           ("request_token_url" :> "custom") @@ ("access_token_url" :> "default_access")

\* C4 as stated: social.<name> is None for every name that is not registered and
\* the registered Provider for every name that is.
C4_LenientLookup ==
    call.op = "getattr" =>
        IF call.name \in DOMAIN providers
        THEN call.result = [kind |-> "provider", value |-> providers[call.name]]
        ELSE call.result.kind = "none"

\* C4 amended: the same, for every name that is not an attribute of the Social
\* object or of its class.
C4_LenientLookupOfOtherNames ==
    (call.op = "getattr" /\ call.name \notin attrs \cup ClassAttrs) =>
        IF call.name \in DOMAIN providers
        THEN call.result = [kind |-> "provider", value |-> providers[call.name]]
        ELSE call.result.kind = "none"

C4_Witness ==
    /\ call.op = "getattr"
    /\ call.name = "github"
    /\ call.result.kind = "none"
    /\ DOMAIN providers # {}

\* The registry that results from registering the pairs of seq, in order, on provs
LastIndex(seq, n) == CHOOSE i \in 1..Len(seq) :
                        seq[i][1] = n /\ \A j \in (i + 1)..Len(seq) : seq[j][1] # n
IsUpsertOf(after, before, seq) ==
    LET names == {seq[i][1] : i \in 1..Len(seq)}
    IN  /\ DOMAIN after = DOMAIN before \cup names
        /\ \A n \in names : after[n] = seq[LastIndex(seq, n)][2]
        /\ \A n \in DOMAIN before \ names : after[n] = before[n]

\* C5: the registry maps each id to the provider of the most recent registration
\* for it; a registration leaves every other id's entry as it was and removes none.
C5_LastRegistrationWins ==
    /\ call.op = "register_provider" =>
           IsUpsertOf(providers, call.providers_before, <<<<call.name, call.provider>>>>)
    /\ IsInit => IsUpsertOf(providers, call.providers_before, call.registered)

\* A registration replaced an id's earlier provider and kept another id's entry
C5_Witness ==
    /\ call.op = "register_provider"
    /\ call.name \in DOMAIN call.providers_before
    /\ call.providers_before[call.name] # call.provider
    /\ DOMAIN providers # {call.name}

\* C9 as stated: when the construction's init_app raises, app.social is not set
\* and the registry holds no provider.
C9_NoPartialStartup ==
    (call.op = "__init__" /\ call.exc # "") =>
        /\ ~app_social
        /\ DOMAIN providers = {}

\* C9 amended: when init_app raises, app.social is as it was before the call (not
\* set, when the call is the construction's); the registry holds what it held
\* before plus the providers configured before the failing configuration step,
\* and is unchanged when the failure is in the normalization.
C9_FailureLeavesPrefix ==
    (IsInit /\ call.exc # "") =>
        /\ app_social = call.app_social_before
        /\ call.op = "__init__" => ~app_social
        /\ IsUpsertOf(providers, call.providers_before, call.registered)
        /\ Len(call.registered) < Len(call.provider_configs) \/ call.registered = <<>>
        /\ \A i \in 1..Len(call.registered) :
              call.registered[i] = configure_provider(call.provider_configs[i])
        /\ call.exc # "ConfigureError" => providers = call.providers_before

\* The second provider's configuration step raised after the first was registered
C9_Witness ==
    /\ call.op = "__init__"
    /\ call.exc = "ConfigureError"
    /\ ~app_social
    /\ Len(call.registered) = 1
    /\ DOMAIN providers # {}

\* C10: a run of init_app over the store a completed run normalized leaves every
\* key's config as it was, and hands the stored configs on; no run changes a
\* built-in provider's default config.
C10_NormalizationIdempotent ==
    /\ IsInit => defaults = call.defaults_before
    /\ call.op = "init_app" =>
           /\ call.exc \in {"", "ConfigureError"}
           /\ config = call.config_before
           /\ \A i \in 1..Len(call.provider_configs) :
                 call.provider_configs[i] = call.config_before[ScannedKeys[i]]

\* A second run went over a store in which a built-in provider had been merged
C10_Witness ==
    /\ call.op = "init_app"
    /\ "SOCIAL_TWITTER" \in DOMAIN config
    /\ call.config_before["SOCIAL_TWITTER"] = MergeDefault(ProviderDefaults["twitter"], V_scenario)
    /\ config["SOCIAL_TWITTER"] = call.config_before["SOCIAL_TWITTER"]
    /\ defaults = ProviderDefaults

====
